---- MODULE Spec2Model ----
(***************************************************************************)
(* Model of lib/worker/scrape.py: the scrape_account job, the twitter      *)
(* scraper it dispatches to and the login that feeds it, run by several    *)
(* workers against one redis (session cache, pub/sub), one database and    *)
(* two job queues.                                                         *)
(*                                                                         *)
(* Each worker executes one job at a time; a step is one statement group   *)
(* of the source that touches a shared resource or the network.  Python    *)
(* exceptions are values: a step that raises stores the exception in       *)
(* exc[w] and moves the worker to the except clauses of scrape_account.    *)
(***************************************************************************)
EXTENDS Integers, Sequences, FiniteSets, TLC

\* ------------------------------------------------------------------ bounds
\* Number of scrape_account jobs the workers start in one behaviour.
MaxJobs == 2
\* Number of scrape_twitter_avatar jobs the avatar workers start.
MaxAvatarJobs == 2

Workers == {"w1", "w2"}
AvatarWorkers == {"a1", "a2"}
Sites == {"twitter", "facebook"}
Names == {"alice", "bob"}

\* ------------------------------------------------------------- basic values
NoneStr == "<None>"
NoneInt == -1
NoCode == -1

\* account_scrapers with an entry for every site.
account_scrapers_any_site == {"twitter", "facebook"}

\* The dict of scrapers built at the head of scrape_account.
account_scrapers == {"twitter"}

twitter_url == <<"https://twitter.com">>
login_home_url == twitter_url \o <<"/login">>

\* str.startswith on urls kept as sequences of segments.
StartsWith(s, prefix) ==
    /\ Len(s) >= Len(prefix)
    /\ SubSeq(s, 1, Len(prefix)) = prefix

\* ---------------------------------------------------------------- exceptions
NoExc == [type |-> "none", code |-> NoCode]
Exc(t) == [type |-> t, code |-> NoCode]

\* urllib.error.HTTPError.__init__(self, url, code, msg, hdrs, fp): a call
\* whose keywords are not exactly parameters of that signature raises
\* TypeError before any HTTPError exists.
HTTPErrorParams == {"url", "code", "msg", "hdrs", "fp"}
HTTPError(kwargs) ==
    IF DOMAIN kwargs \subseteq HTTPErrorParams /\ HTTPErrorParams \subseteq DOMAIN kwargs
    THEN [type |-> "HTTPError", code |-> kwargs.code]
    ELSE Exc("TypeError")

\* ------------------------------------------------------------------ pickle
\* A job is named by its worker and its number there; the requests session
\* a job creates is named after the job.
NoSession == [worker |-> "", n |-> 0]
NoBlob == [kind |-> "none", sid |-> NoSession]
Garbage == [kind |-> "garbage", sid |-> NoSession]
pickle_dumps(s) == [kind |-> "pickle", sid |-> s]
\* pickle.loads: the session, or a raise on bytes that are no pickle.
pickle_loads(b) ==
    IF b.kind = "pickle" THEN [ok |-> TRUE, value |-> b.sid]
    ELSE [ok |-> FALSE, value |-> NoSession]

\* --------------------------------------------------------------- the markup
SelIdentity == ".ProfileNav-item--userActions .user-actions"
SelBio == ".ProfileHeaderCard-bio"
SelPosts == ".ProfileNav-item--tweets .ProfileNav-value"
SelFriends == ".ProfileNav-item--following .ProfileNav-value"
SelFollowers == ".ProfileNav-item--followers .ProfileNav-value"
SelAvatar == ".ProfileAvatar-image"
Secondary == {SelBio, SelPosts, SelFriends, SelFollowers, SelAvatar}
Selectors == {SelIdentity} \cup Secondary

\* The site's own id of an account.
UserIdOf(n) == IF n = "alice" THEN "id_a" ELSE "id_b"

\* A page is the function selector -> list of matching elements.  An
\* element is its data-user-id, its src or its text; the text of a count
\* is a sequence of characters.
FullPage(n) ==
    [s \in Selectors |->
        CASE s = SelIdentity -> <<UserIdOf(n)>>
          [] s = SelBio -> <<"bio">>
          [] s = SelPosts -> << <<"1", ",", "2">> >>
          [] s = SelFriends -> << <<"3">> >>
          [] s = SelFollowers -> << <<"4", "5">> >>
          [] OTHER -> <<"http://pbs/a.png">>]
EmptyPage == [s \in Selectors |-> <<>>]
Without(page, sel) == [page EXCEPT ![sel] = <<>>]
BadCount(page) == [page EXCEPT ![SelFriends] = << <<"n", "/", "a">> >>]

\* What the site may answer to GET https://twitter.com/<name>.  "alice" is
\* an account whose page comes in every shape of markup, or not at all
\* (500); "bob" is an account that is served whole or is gone (404).
HomeResponses(n) ==
    IF n = "alice"
    THEN {[status_code |-> 200, html |-> FullPage(n)]}
         \cup {[status_code |-> 200, html |-> Without(FullPage(n), s)] : s \in Selectors}
         \cup {[status_code |-> 200, html |-> BadCount(FullPage(n))]}
         \cup {[status_code |-> 500, html |-> EmptyPage]}
    ELSE {[status_code |-> 200, html |-> FullPage(n)],
          [status_code |-> 404, html |-> EmptyPage]}
NoResponse == [status_code |-> 0, html |-> EmptyPage]

\* html.select(selector)
Select(html, sel) == html[sel]

Digits == {"0", "1", "2", "3", "4", "5", "6", "7", "8", "9"}
DigitVal(c) ==
    CASE c = "0" -> 0 [] c = "1" -> 1 [] c = "2" -> 2 [] c = "3" -> 3
      [] c = "4" -> 4 [] c = "5" -> 5 [] c = "6" -> 6 [] c = "7" -> 7
      [] c = "8" -> 8 [] OTHER -> 9
IsComma(c) == c = ","
NotComma(c) == ~IsComma(c)
\* text.replace(',', '')
StripCommas(text) == SelectSeq(text, NotComma)
RECURSIVE DecimalValue(_)
DecimalValue(ds) ==
    IF ds = <<>> THEN 0
    ELSE 10 * DecimalValue(SubSeq(ds, 1, Len(ds) - 1)) + DigitVal(ds[Len(ds)])
\* int(text.replace(',', '')): the number, or ValueError.
ParseCount(text) ==
    LET ds == StripCommas(text) IN
    IF ds # <<>> /\ \A i \in 1..Len(ds) : ds[i] \in Digits
    THEN [ok |-> TRUE, value |-> DecimalValue(ds)]
    ELSE [ok |-> FALSE, value |-> NoneInt]

\* ------------------------------------------------------------------- state
VARIABLES
    pc,               \* where each worker is in its job
    job,              \* how many jobs a worker has taken; it runs the last
    args,             \* (site, name) the job was called with
    exc,              \* the exception in flight or that ended the job
    session,          \* the requests session a worker holds
    login_response,   \* the answer to the login POST, inside _login_twitter
    response,         \* the home page response a worker got
    profile,          \* the Profile object of a worker's db session
    data,             \* the dict _scrape_twitter_account builds
    avatar_url,       \* the avatar's src
    twitter_session,  \* redis key 'twitter_session'
    profiles,         \* the Profile table, a row's id is its index
    inserted_by,      \* for each row, the job whose INSERT created it
    scrape_queue,     \* app.queue.scrape_queue
    index_queue,      \* app.queue.index_queue
    profile_channel,  \* what was published on channel 'profile'
    loginCalls,       \* login network calls of a worker's last job
    sessionWrites,    \* redis.set calls of a worker's last job
    apc,              \* where each avatar worker is in scrape_twitter_avatar
    ajob,             \* how many avatar jobs an avatar worker has taken
    aargs,            \* (id_, url) the avatar job was called with
    aresp,            \* the download's response
    aexc,             \* the exception that ended the avatar job
    files,            \* the File table, a row's id is its index
    stored_by,        \* for each File row, the avatar job that created it
    afile,            \* the id of the File an avatar job has stored
    avatars,          \* profile.avatars: the pairs (profile id, file id)
    avatar_channel    \* what was published on channel 'avatar'

locals == <<session, login_response, response, profile, data, avatar_url>>
shared == <<twitter_session, profiles, inserted_by, scrape_queue, index_queue, profile_channel>>
counters == <<loginCalls, sessionWrites>>
avatar_vars == <<apc, ajob, aargs, aresp, aexc, afile, files, stored_by, avatars, avatar_channel>>
vars == <<pc, job, args, exc, locals, shared, counters, avatar_vars>>

NoProfile ==
    [id |-> 0, site |-> NoneStr, original_id |-> NoneStr, name |-> NoneStr,
     description |-> NoneStr, post_count |-> NoneInt,
     friend_count |-> NoneInt, follower_count |-> NoneInt]
\* Profile(site, original_id, name): the other columns start unset.
Profile(site, original_id, name) ==
    [NoProfile EXCEPT !.site = site, !.original_id = original_id, !.name = name]
NoData == [name |-> NoneStr, site |-> NoneStr]
NoLoginResponse == [status_code |-> 0, Location |-> <<>>]

Terminal == {"returned", "raised"}

JobId(w) == [worker |-> w, n |-> job[w]]
RECURSIVE SumOver(_, _)
SumOver(f, S) ==
    IF S = {} THEN 0
    ELSE LET x == CHOOSE y \in S : TRUE IN f[x] + SumOver(f, S \ {x})
JobsTaken == SumOver(job, Workers)

NoAvatarArgs == [id_ |-> 0, url |-> <<>>]
NoHeaders == [h \in {} |-> ""]
NoAvatarResponse == [status_code |-> 0, headers |-> NoHeaders, content |-> ""]

\* No avatar job has run: no File, no avatar, nothing on 'avatar'.
AvatarInit ==
    /\ apc = [a \in AvatarWorkers |-> "idle"]
    /\ ajob = [a \in AvatarWorkers |-> 0]
    /\ aargs = [a \in AvatarWorkers |-> NoAvatarArgs]
    /\ aresp = [a \in AvatarWorkers |-> NoAvatarResponse]
    /\ aexc = [a \in AvatarWorkers |-> NoExc]
    /\ afile = [a \in AvatarWorkers |-> 0]
    /\ files = <<>>
    /\ stored_by = <<>>
    /\ avatars = <<>>
    /\ avatar_channel = <<>>

Init ==
    /\ AvatarInit
    /\ pc = [w \in Workers |-> "idle"]
    /\ job = [w \in Workers |-> 0]
    /\ args = [w \in Workers |-> [site |-> NoneStr, name |-> NoneStr]]
    /\ exc = [w \in Workers |-> NoExc]
    /\ session = [w \in Workers |-> NoSession]
    /\ login_response = [w \in Workers |-> NoLoginResponse]
    /\ response = [w \in Workers |-> NoResponse]
    /\ profile = [w \in Workers |-> NoProfile]
    /\ data = [w \in Workers |-> NoData]
    /\ avatar_url = [w \in Workers |-> NoneStr]
    /\ twitter_session \in {NoBlob, Garbage}
    /\ profiles = <<>>
    /\ inserted_by = <<>>
    /\ scrape_queue = <<>>
    /\ index_queue = <<>>
    /\ profile_channel = <<>>
    /\ loginCalls = [w \in Workers |-> 0]
    /\ sessionWrites = [w \in Workers |-> 0]

\* The job is over: the objects of its frames are gone.  What the job was
\* given (args, the home page response), the calls it made and how it
\* ended (exc) stay on record until the worker takes its next job.
Forget(w) ==
    /\ session' = [session EXCEPT ![w] = NoSession]
    /\ login_response' = [login_response EXCEPT ![w] = NoLoginResponse]
    /\ profile' = [profile EXCEPT ![w] = NoProfile]
    /\ data' = [data EXCEPT ![w] = NoData]
    /\ avatar_url' = [avatar_url EXCEPT ![w] = NoneStr]

\* A statement raises: the job continues in scrape_account's except clauses.
Raise(w, e) ==
    /\ exc' = [exc EXCEPT ![w] = e]
    /\ pc' = [pc EXCEPT ![w] = "except"]

Goto(w, label) ==
    /\ pc' = [pc EXCEPT ![w] = label]
    /\ exc' = exc

\* redis.publish('profile', json.dumps(message)); the entry remembers the
\* job that published it.
Publish(w, message) ==
    profile_channel' = Append(profile_channel, [job |-> JobId(w), message |-> message])

\* ----------------------------------------------------------- scrape_account
\* A worker takes a job scrape_account(site, name): the site is looked up
\* in account_scrapers, an unknown one raises ValueError.
scrape_account(w) ==
    /\ pc[w] \in {"idle"} \cup Terminal
    /\ UNCHANGED avatar_vars
    /\ JobsTaken < MaxJobs
    /\ \E site \in Sites, name \in Names :
        /\ args' = [args EXCEPT ![w] = [site |-> site, name |-> name]]
        /\ IF site \in account_scrapers
           THEN /\ pc' = [pc EXCEPT ![w] = "login"]
                /\ exc' = [exc EXCEPT ![w] = NoExc]
           ELSE /\ pc' = [pc EXCEPT ![w] = "raised"]
                /\ exc' = [exc EXCEPT ![w] = Exc("ValueError")]
    /\ job' = [job EXCEPT ![w] = @ + 1]
    /\ session' = [session EXCEPT ![w] = NoSession]
    /\ login_response' = [login_response EXCEPT ![w] = NoLoginResponse]
    /\ response' = [response EXCEPT ![w] = NoResponse]
    /\ profile' = [profile EXCEPT ![w] = NoProfile]
    /\ data' = [data EXCEPT ![w] = NoData]
    /\ avatar_url' = [avatar_url EXCEPT ![w] = NoneStr]
    /\ loginCalls' = [loginCalls EXCEPT ![w] = 0]
    /\ sessionWrites' = [sessionWrites EXCEPT ![w] = 0]
    /\ UNCHANGED shared

\* ------------------------------------------------------------ _login_twitter
\* LoginCached without the return of the loaded session: the handshake
\* runs although the cache was hit.
LoginCached_no_return(w) ==
    /\ pc[w] = "login"
    /\ UNCHANGED avatar_vars
    /\ session' = [session EXCEPT ![w] = JobId(w)]
    /\ Goto(w, "login_page")
    /\ UNCHANGED <<job, args, login_response, response, profile, data, avatar_url, shared, counters>>

\* redis.get and pickle.loads: a saved session that loads is returned at
\* once; otherwise a new requests.Session() starts the handshake.
LoginCached(w) ==
    /\ pc[w] = "login"
    /\ UNCHANGED avatar_vars
    /\ LET saved_session == twitter_session
           loaded == pickle_loads(saved_session)
       IN IF saved_session # NoBlob /\ loaded.ok
          THEN /\ session' = [session EXCEPT ![w] = loaded.value]
               /\ Goto(w, "fetch")
          ELSE /\ session' = [session EXCEPT ![w] = JobId(w)]
               /\ Goto(w, "login_page")
    /\ UNCHANGED <<job, args, login_response, response, profile, data, avatar_url, shared, counters>>

LoginPageResponses ==
    {[status_code |-> 200, csrf_elements |-> <<"token">>],
     [status_code |-> 200, csrf_elements |-> <<>>],
     [status_code |-> 503, csrf_elements |-> <<>>]}

\* session.get(login page) and the search for the authenticity token.
LoginPage(w) ==
    /\ pc[w] = "login_page"
    /\ UNCHANGED avatar_vars
    /\ loginCalls' = [loginCalls EXCEPT ![w] = @ + 1]
    /\ \E home_response \in LoginPageResponses :
        IF home_response.status_code # 200
        THEN Raise(w, Exc("ValueError"))
        ELSE IF Len(home_response.csrf_elements) = 0
        THEN Raise(w, Exc("ValueError"))
        ELSE Goto(w, "login_post")
    /\ UNCHANGED <<job, args, locals, shared, sessionWrites>>

LoginResponses ==
    {[status_code |-> 302, Location |-> twitter_url \o <<"/">>],
     [status_code |-> 302, Location |-> login_home_url \o <<"/error">>],
     [status_code |-> 200, Location |-> <<>>]}

\* LoginOutcome with the check of the redirect's target left out.
LoginOutcome_any_redirect(r) ==
    IF r.status_code # 302 THEN Exc("ValueError") ELSE NoExc

\* The outcome of session.post(login_url): the exception the checks on
\* the response raise, or none.  `click` is never imported by the module,
\* so evaluating click.ClickException raises NameError.
LoginOutcome(r) ==
    IF r.status_code # 302 THEN Exc("ValueError")
    ELSE IF StartsWith(r.Location, login_home_url) THEN Exc("NameError")
    ELSE NoExc

LoginPost(w) ==
    /\ pc[w] = "login_post"
    /\ UNCHANGED avatar_vars
    /\ loginCalls' = [loginCalls EXCEPT ![w] = @ + 1]
    /\ \E r \in LoginResponses :
        /\ login_response' = [login_response EXCEPT ![w] = r]
        /\ LET e == LoginOutcome(r) IN
           IF e # NoExc THEN Raise(w, e) ELSE Goto(w, "login_save")
    /\ UNCHANGED <<job, args, session, response, profile, data, avatar_url, shared,
                   sessionWrites>>

\* LoginSave that returns the session without the redis.set.
LoginSave_no_set(w) ==
    /\ pc[w] = "login_save"
    /\ UNCHANGED avatar_vars
    /\ twitter_session' = twitter_session
    /\ sessionWrites' = sessionWrites
    /\ login_response' = [login_response EXCEPT ![w] = NoLoginResponse]
    /\ Goto(w, "fetch")
    /\ UNCHANGED <<job, args, session, response, profile, data, avatar_url, profiles,
                   inserted_by, scrape_queue, index_queue, profile_channel, loginCalls>>

\* pickle.dumps(session); redis.set('twitter_session', ...); return session
LoginSave(w) ==
    /\ pc[w] = "login_save"
    /\ UNCHANGED avatar_vars
    /\ twitter_session' = pickle_dumps(session[w])
    /\ sessionWrites' = [sessionWrites EXCEPT ![w] = @ + 1]
    /\ login_response' = [login_response EXCEPT ![w] = NoLoginResponse]
    /\ Goto(w, "fetch")
    /\ UNCHANGED <<job, args, session, response, profile, data, avatar_url, profiles,
                   inserted_by, scrape_queue, index_queue, profile_channel, loginCalls>>

\* --------------------------------------------------- _scrape_twitter_account
\* twitter_session.get(home_url); a status other than 200 raises what the
\* call HTTPError(code=..., message=...) raises.  Then the identity:
\* html.select(identity)[0]['data-user-id'] ([0] of an empty list is an
\* IndexError), Profile('twitter', user_id, username), db_session.add.
Fetch(w) ==
    /\ pc[w] = "fetch"
    /\ UNCHANGED avatar_vars
    /\ \E r \in HomeResponses(args[w].name) :
        /\ response' = [response EXCEPT ![w] = r]
        /\ LET els == Select(r.html, SelIdentity) IN
           IF r.status_code # 200
           THEN /\ Raise(w, HTTPError([code |-> r.status_code,
                                       message |-> "Not able to get home page"]))
                /\ profile' = profile
           ELSE IF Len(els) = 0
           THEN /\ Raise(w, Exc("IndexError"))
                /\ profile' = profile
           ELSE /\ profile' = [profile EXCEPT ![w] = Profile("twitter", els[1], args[w].name)]
                /\ Goto(w, "insert")
    /\ UNCHANGED <<job, args, session, login_response, data, avatar_url, shared, counters>>

\* The rows that hold the identity (site, original_id).
RowsOf(site, original_id) ==
    {i \in 1..Len(profiles) :
        profiles[i].site = site /\ profiles[i].original_id = original_id}

\* IntegrityError on a table without the uniqueness constraint.
IntegrityError_unconstrained(p) == FALSE

\* The INSERT of the pending Profile violates the uniqueness constraint
\* the except IntegrityError clause answers to.
IntegrityError(p) == RowsOf(p.site, p.original_id) # {}

\* The first db_session.commit(): the row is inserted and gets the next
\* id; on IntegrityError the session rolls back and the existing row is
\* read instead (.one()).  Any other database error propagates.
InsertCommit(w) ==
    /\ pc[w] = "insert"
    /\ UNCHANGED avatar_vars
    /\ \E fault \in BOOLEAN :
        IF fault
        THEN /\ Raise(w, Exc("OperationalError"))
             /\ UNCHANGED <<profiles, inserted_by, profile>>
        ELSE IF IntegrityError(profile[w])
        THEN /\ profile' = [profile EXCEPT ![w] =
                    profiles[CHOOSE i \in RowsOf(profile[w].site, profile[w].original_id) : TRUE]]
             /\ UNCHANGED <<profiles, inserted_by>>
             /\ Goto(w, "fields")
        ELSE /\ profile' = [profile EXCEPT ![w].id = Len(profiles) + 1]
             /\ profiles' = Append(profiles, profile'[w])
             /\ inserted_by' = Append(inserted_by, JobId(w))
             /\ Goto(w, "fields")
    /\ UNCHANGED <<job, args, session, login_response, response, data, avatar_url, twitter_session,
                   scrape_queue, index_queue, profile_channel, counters>>

\* One count: select(sel)[0], then int(text.replace(',', '')).
Count(html, sel) ==
    LET els == Select(html, sel) IN
    IF Len(els) = 0 THEN [exc |-> Exc("IndexError"), value |-> NoneInt]
    ELSE LET n == ParseCount(els[1]) IN
         IF n.ok THEN [exc |-> NoExc, value |-> n.value]
         ELSE [exc |-> Exc("ValueError"), value |-> NoneInt]

\* The extraction of the secondary fields in the source's order: the
\* first statement that raises ends it.
Extracted(html) ==
    LET bio == Select(html, SelBio)
        posts == Count(html, SelPosts)
        friends == Count(html, SelFriends)
        followers == Count(html, SelFollowers)
        avatar == Select(html, SelAvatar)
        none == [description |-> NoneStr, post_count |-> NoneInt,
                 friend_count |-> NoneInt, follower_count |-> NoneInt,
                 avatar_url |-> NoneStr]
    IN  IF Len(bio) = 0 THEN [exc |-> Exc("IndexError"), fields |-> none]
        ELSE IF posts.exc # NoExc THEN [exc |-> posts.exc, fields |-> none]
        ELSE IF friends.exc # NoExc THEN [exc |-> friends.exc, fields |-> none]
        ELSE IF followers.exc # NoExc THEN [exc |-> followers.exc, fields |-> none]
        ELSE IF Len(avatar) = 0 THEN [exc |-> Exc("IndexError"), fields |-> none]
        ELSE [exc |-> NoExc,
              fields |-> [description |-> bio[1], post_count |-> posts.value,
                          friend_count |-> friends.value,
                          follower_count |-> followers.value,
                          avatar_url |-> avatar[1]]]

\* data = {...}; the fields are read from the markup into data and
\* assigned to the profile object (not yet committed).
ExtractFields(w) ==
    /\ pc[w] = "fields"
    /\ UNCHANGED avatar_vars
    /\ LET x == Extracted(response[w].html) IN
       IF x.exc # NoExc
       THEN /\ Raise(w, x.exc)
            /\ UNCHANGED <<profile, data, avatar_url>>
       ELSE /\ data' = [data EXCEPT ![w] =
                    [name |-> args[w].name, site |-> "twitter",
                     description |-> x.fields.description,
                     post_count |-> x.fields.post_count,
                     friend_count |-> x.fields.friend_count,
                     follower_count |-> x.fields.follower_count]]
            /\ profile' = [profile EXCEPT
                    ![w].description = x.fields.description,
                    ![w].post_count = x.fields.post_count,
                    ![w].friend_count = x.fields.friend_count,
                    ![w].follower_count = x.fields.follower_count]
            /\ avatar_url' = [avatar_url EXCEPT ![w] = x.fields.avatar_url]
            /\ Goto(w, "commit")
    /\ UNCHANGED <<job, args, session, login_response, response, shared, counters>>

\* CommitFields that goes on to the enqueues without writing the row.
CommitFields_no_flush(w) ==
    /\ pc[w] = "commit"
    /\ UNCHANGED avatar_vars
    /\ \E fault \in BOOLEAN :
        IF fault
        THEN /\ Raise(w, Exc("OperationalError"))
             /\ profiles' = profiles
        ELSE /\ profiles' = profiles
             /\ Goto(w, "enqueue_avatar")
    /\ UNCHANGED <<job, args, locals, twitter_session, inserted_by, scrape_queue, index_queue,
                   profile_channel, counters>>

\* The second db_session.commit(): the profile's fields reach its row.
CommitFields(w) ==
    /\ pc[w] = "commit"
    /\ UNCHANGED avatar_vars
    /\ \E fault \in BOOLEAN :
        IF fault
        THEN /\ Raise(w, Exc("OperationalError"))
             /\ profiles' = profiles
        ELSE /\ profiles' = [profiles EXCEPT ![profile[w].id] = profile[w]]
             /\ Goto(w, "enqueue_avatar")
    /\ UNCHANGED <<job, args, locals, twitter_session, inserted_by, scrape_queue, index_queue,
                   profile_channel, counters>>

\* AvatarJob with the id of a Profile object that was never flushed.
AvatarJob_unflushed_id(w) ==
    [func |-> "scrape_twitter_avatar", id |-> NoProfile.id, url |-> avatar_url[w],
     job |-> JobId(w)]

\* The call (scrape_twitter_avatar, profile.id, avatar_url); the entry
\* remembers the job that enqueued it.
AvatarJob(w) ==
    [func |-> "scrape_twitter_avatar", id |-> profile[w].id, url |-> avatar_url[w],
     job |-> JobId(w)]

\* The call (worker.index.index_profile, profile.id).
IndexJob(w) ==
    [func |-> "index_profile", id |-> profile[w].id, job |-> JobId(w)]

\* app.queue.scrape_queue.enqueue(scrape_twitter_avatar, profile.id, avatar_url)
EnqueueAvatar(w) ==
    /\ pc[w] = "enqueue_avatar"
    /\ UNCHANGED avatar_vars
    /\ \E fault \in BOOLEAN :
        IF fault
        THEN /\ Raise(w, Exc("ConnectionError"))
             /\ scrape_queue' = scrape_queue
        ELSE /\ scrape_queue' = Append(scrape_queue, AvatarJob(w))
             /\ Goto(w, "enqueue_index")
    /\ UNCHANGED <<job, args, locals, twitter_session, profiles, inserted_by, index_queue,
                   profile_channel, counters>>

\* app.queue.index_queue.enqueue(worker.index.index_profile, profile.id);
\* data['id'] = profile.id; return data
EnqueueIndex(w) ==
    /\ pc[w] = "enqueue_index"
    /\ UNCHANGED avatar_vars
    /\ \E fault \in BOOLEAN :
        IF fault
        THEN /\ Raise(w, Exc("ConnectionError"))
             /\ UNCHANGED <<index_queue, data>>
        ELSE /\ index_queue' = Append(index_queue, IndexJob(w))
             /\ data' = [data EXCEPT ![w] =
                    [k \in DOMAIN data[w] \cup {"id"} |->
                        IF k = "id" THEN profile[w].id ELSE data[w][k]]]
             /\ Goto(w, "publish")
    /\ UNCHANGED <<job, args, session, login_response, response, profile, avatar_url,
                   twitter_session, profiles, inserted_by, scrape_queue, profile_channel,
                   counters>>

\* ------------------------------------------------- scrape_account, continued
\* redis.publish('profile', json.dumps(profile)) in the try block; a
\* publish that raises has delivered nothing.
PublishSuccess(w) ==
    /\ pc[w] = "publish"
    /\ UNCHANGED avatar_vars
    /\ \E fault \in BOOLEAN :
        IF fault
        THEN /\ Raise(w, Exc("ConnectionError"))
             /\ profile_channel' = profile_channel
             /\ UNCHANGED <<session, login_response, profile, data, avatar_url>>
        ELSE /\ Publish(w, data[w])
             /\ Goto(w, "returned")
             /\ Forget(w)
    /\ UNCHANGED <<job, args, response, twitter_session, profiles, inserted_by,
                   scrape_queue, index_queue, counters>>

\* The error texts; a text is the sequence of its parts, so that
\* 'Error while communicating with {}.'.format(site) keeps the site.
NotFoundText == <<"Profile not found.">>
CommunicationText(site) == <<"Error while communicating with ", site, ".">>
UnknownText == <<"Unknown error while fetching profile.">>

\* The message an except clause builds for exception e.
FailureMessage(e, site, name) ==
    IF e.type = "HTTPError"
    THEN [name |-> name, site |-> site, error_code |-> e.code,
          error |-> IF e.code = 404 THEN NotFoundText ELSE CommunicationText(site)]
    ELSE [name |-> name, site |-> site, error |-> UnknownText]

\* Reraises without the bare raise.
Reraises_never(e) == FALSE

\* The except clause for e ends with a bare raise.
Reraises(e) == e.type # "HTTPError"

\* Except with an except Exception clause that only re-raises.
Except_silent(w) ==
    /\ pc[w] = "except"
    /\ UNCHANGED avatar_vars
    /\ IF Reraises(exc[w])
       THEN profile_channel' = profile_channel
       ELSE Publish(w, FailureMessage(exc[w], args[w].site, args[w].name))
    /\ pc' = [pc EXCEPT ![w] = IF Reraises(exc[w]) THEN "raised" ELSE "returned"]
    /\ Forget(w)
    /\ UNCHANGED <<job, args, exc, response, twitter_session, profiles, inserted_by,
                   scrape_queue, index_queue, counters>>

\* except HTTPError / except Exception: build the message, publish it,
\* and re-raise unless the exception is an HTTPError.  The publish of an
\* except clause is taken to be delivered.
Except(w) ==
    /\ pc[w] = "except"
    /\ UNCHANGED avatar_vars
    /\ Publish(w, FailureMessage(exc[w], args[w].site, args[w].name))
    /\ pc' = [pc EXCEPT ![w] = IF Reraises(exc[w]) THEN "raised" ELSE "returned"]
    /\ Forget(w)
    /\ UNCHANGED <<job, args, exc, response, twitter_session, profiles, inserted_by,
                   scrape_queue, index_queue, counters>>

Next ==
    \E w \in Workers :
        \/ scrape_account(w)
        \/ LoginCached(w)
        \/ LoginPage(w)
        \/ LoginPost(w)
        \/ LoginSave(w)
        \/ Fetch(w)
        \/ InsertCommit(w)
        \/ ExtractFields(w)
        \/ CommitFields(w)
        \/ EnqueueAvatar(w)
        \/ EnqueueIndex(w)
        \/ PublishSuccess(w)
        \/ Except(w)

Spec == Init /\ [][Next]_vars

\* ----------------------------------------------------- scrape_twitter_avatar
AJobId(a) == [worker |-> a, n |-> ajob[a]]
AvatarJobsTaken == SumOver(ajob, AvatarWorkers)
scrape_vars == <<pc, job, args, exc, locals, shared, counters>>

\* The urls avatar jobs are called with, each as url.split('/') sees it.
AvatarUrls == {<<"http:", "", "pbs", "a.png">>, <<"http:", "", "pbs", "b", "c.jpg">>}

\* What the asset host may answer to requests.get(url, stream=True).
AvatarResponses ==
    {[status_code |-> 200, headers |-> [h \in {"content-type"} |-> "image/png"],
      content |-> "png"],
     [status_code |-> 200, headers |-> NoHeaders, content |-> "raw"],
     [status_code |-> 404, headers |-> NoHeaders, content |-> ""]}

\* DownloadFailed that accepts any answer.
DownloadFailed_any_status(r) == FALSE

\* if response.status_code != 200: raise ValueError()
DownloadFailed(r) == r.status_code # 200

\* ProfileMissing without the check for None.
ProfileMissing_unchecked(id_) == FALSE

\* db_session.query(Profile).filter(Profile.id==id_).first() is None
ProfileMissing(id_) == id_ \notin 1..Len(profiles)

\* name = url.split('/')[-1]
LastSegment(url) == url[Len(url)]

\* The mime type: the response's content-type, or the generic binary type.
MimeOf(r) ==
    IF "content-type" \in DOMAIN r.headers THEN r.headers["content-type"]
    ELSE "application/octet-stream"

\* File(name=name, mime=mime, content=content)
File(url, r) == [name |-> LastSegment(url), mime |-> MimeOf(r), content |-> r.content]

\* The avatar job raises: it is over.
ARaise(a, e) ==
    /\ aexc' = [aexc EXCEPT ![a] = e]
    /\ apc' = [apc EXCEPT ![a] = "raised"]

AGoto(a, label) ==
    /\ apc' = [apc EXCEPT ![a] = label]
    /\ aexc' = aexc

\* An avatar worker takes a job scrape_twitter_avatar(id_, url); the id
\* is that of a row or of no row.
scrape_twitter_avatar(a) ==
    /\ apc[a] \in {"idle"} \cup Terminal
    /\ AvatarJobsTaken < MaxAvatarJobs
    /\ \E id_ \in 1..(Len(profiles) + 1), url \in AvatarUrls :
        aargs' = [aargs EXCEPT ![a] = [id_ |-> id_, url |-> url]]
    /\ ajob' = [ajob EXCEPT ![a] = @ + 1]
    /\ aresp' = [aresp EXCEPT ![a] = NoAvatarResponse]
    /\ afile' = [afile EXCEPT ![a] = 0]
    /\ apc' = [apc EXCEPT ![a] = "download"]
    /\ aexc' = [aexc EXCEPT ![a] = NoExc]
    /\ UNCHANGED <<scrape_vars, files, stored_by, avatars, avatar_channel>>

\* requests.get(url, stream=True) and the check of the status.
Download(a) ==
    /\ apc[a] = "download"
    /\ \E r \in AvatarResponses :
        /\ aresp' = [aresp EXCEPT ![a] = r]
        /\ IF DownloadFailed(r) THEN ARaise(a, Exc("ValueError")) ELSE AGoto(a, "lookup")
    /\ UNCHANGED <<scrape_vars, ajob, aargs, afile, files, stored_by, avatars, avatar_channel>>

\* The query for the profile and the check for None.
Lookup(a) ==
    /\ apc[a] = "lookup"
    /\ IF ProfileMissing(aargs[a].id_) THEN ARaise(a, Exc("ValueError")) ELSE AGoto(a, "store")
    /\ UNCHANGED <<scrape_vars, ajob, aargs, aresp, afile, files, stored_by, avatars,
                   avatar_channel>>

\* File(...), profile.avatars.append(file_), db_session.commit(): the
\* File row and its link to the profile are stored together, or the
\* commit raises and nothing is stored.
Store(a) ==
    /\ apc[a] = "store"
    /\ \E fault \in BOOLEAN :
        IF fault
        THEN /\ ARaise(a, Exc("OperationalError"))
             /\ UNCHANGED <<afile, files, stored_by, avatars>>
        ELSE /\ files' = Append(files, File(aargs[a].url, aresp[a]))
             /\ stored_by' = Append(stored_by, AJobId(a))
             /\ afile' = [afile EXCEPT ![a] = Len(files) + 1]
             /\ avatars' = Append(avatars, [profile |-> aargs[a].id_, file |-> Len(files) + 1])
             /\ AGoto(a, "publish")
    /\ UNCHANGED <<scrape_vars, ajob, aargs, aresp, avatar_channel>>

\* redis.publish('avatar', json.dumps({'id': id_, 'url': '/api/file/' + str(file_.id)}))
PublishAvatar(a) ==
    /\ apc[a] = "publish"
    /\ avatar_channel' = Append(avatar_channel,
            [job |-> AJobId(a),
             message |-> [id |-> aargs[a].id_, url |-> <<"/api/file/", afile[a]>>]])
    /\ AGoto(a, "returned")
    /\ UNCHANGED <<scrape_vars, ajob, aargs, aresp, afile, files, stored_by, avatars>>

\* The Profile table as earlier scrapes left it: empty, or with the row
\* of one account.
EarlierJob == [worker |-> "earlier", n |-> 0]
EarlierRow ==
    [Profile("twitter", UserIdOf("alice"), "alice") EXCEPT
        !.id = 1, !.description = "bio", !.post_count = 12,
        !.friend_count = 3, !.follower_count = 45]

InitAvatar ==
    /\ AvatarInit
    /\ pc = [w \in Workers |-> "idle"]
    /\ job = [w \in Workers |-> 0]
    /\ args = [w \in Workers |-> [site |-> NoneStr, name |-> NoneStr]]
    /\ exc = [w \in Workers |-> NoExc]
    /\ session = [w \in Workers |-> NoSession]
    /\ login_response = [w \in Workers |-> NoLoginResponse]
    /\ response = [w \in Workers |-> NoResponse]
    /\ profile = [w \in Workers |-> NoProfile]
    /\ data = [w \in Workers |-> NoData]
    /\ avatar_url = [w \in Workers |-> NoneStr]
    /\ twitter_session = NoBlob
    /\ \E rows \in {<<>>, <<EarlierRow>>} :
        /\ profiles = rows
        /\ inserted_by = [i \in 1..Len(rows) |-> EarlierJob]
    /\ scrape_queue = <<>>
    /\ index_queue = <<>>
    /\ profile_channel = <<>>
    /\ loginCalls = [w \in Workers |-> 0]
    /\ sessionWrites = [w \in Workers |-> 0]

NextAvatar ==
    \E a \in AvatarWorkers :
        \/ scrape_twitter_avatar(a)
        \/ Download(a)
        \/ Lookup(a)
        \/ Store(a)
        \/ PublishAvatar(a)

SpecAvatar == InitAvatar /\ [][NextAvatar]_vars

\* ------------------------------------------------------------ vocabulary
\* The messages job j has published on 'profile', and what it enqueued.
MessagesOf(j) == {i \in 1..Len(profile_channel) : profile_channel[i].job = j}
AvatarJobsOf(j) == {i \in 1..Len(scrape_queue) : scrape_queue[i].job = j}
IndexJobsOf(j) == {i \in 1..Len(index_queue) : index_queue[i].job = j}
RowsInsertedBy(j) == {i \in 1..Len(profiles) : inserted_by[i] = j}

\* The job of worker w is over and was called with a supported site.
Ended(w) == pc[w] \in Terminal /\ args[w].site \in account_scrapers
\* The job of worker w returned the scraper's data and published it.
Succeeded(w) == Ended(w) /\ pc[w] = "returned" /\ exc[w] = NoExc

IsSuccessMessage(m) == "id" \in DOMAIN m /\ "error" \notin DOMAIN m
IsNotFoundMessage(m) ==
    /\ DOMAIN m = {"name", "site", "error", "error_code"}
    /\ m.error_code = 404
    /\ m.error = NotFoundText
IsCommunicationMessage(m, code) ==
    /\ DOMAIN m = {"name", "site", "error", "error_code"}
    /\ m.error_code = code
    /\ m.error = CommunicationText(m.site)
IsUnknownMessage(m) ==
    /\ DOMAIN m = {"name", "site", "error"}
    /\ m.error = UnknownText

\* The worker holds a Profile object bound to a row (it is past the insert).
PastInsert(w) == profile[w].id # 0

\* -------------------------------------------------------------- properties

C2_OneRowPerIdentity ==
    /\ \A i, k \in 1..Len(profiles) :
        (profiles[i].site = profiles[k].site
            /\ profiles[i].original_id = profiles[k].original_id) => i = k
    /\ \A w \in Workers :
        PastInsert(w) => RowsOf(profile[w].site, profile[w].original_id) = {profile[w].id}

\* C2 witness: two scrapers of the same account are both between the insert
\* and the field extraction, on the same single row.
C2_Witness ==
    \E w, v \in Workers :
        /\ w # v
        /\ pc[w] = "fields" /\ pc[v] = "fields"
        /\ profile[w].id = profile[v].id
        /\ profile[w].id # 0
        /\ Len(profiles) = 1

\* C3: a job that succeeded and whose insert created a row created exactly
\* one row, enqueued exactly one avatar fetch and one index update, both
\* with that row's id, and published exactly one message, a success message
\* whose id is that row's id.
C3_FreshSuccess ==
    \A w \in Workers :
        (Succeeded(w) /\ RowsInsertedBy(JobId(w)) # {}) =>
            \E id \in RowsInsertedBy(JobId(w)) :
                /\ RowsInsertedBy(JobId(w)) = {id}
                /\ Cardinality(AvatarJobsOf(JobId(w))) = 1
                /\ Cardinality(IndexJobsOf(JobId(w))) = 1
                /\ \A i \in AvatarJobsOf(JobId(w)) : scrape_queue[i].id = id
                /\ \A i \in IndexJobsOf(JobId(w)) : index_queue[i].id = id
                /\ Cardinality(MessagesOf(JobId(w))) = 1
                /\ \A i \in MessagesOf(JobId(w)) :
                    /\ IsSuccessMessage(profile_channel[i].message)
                    /\ profile_channel[i].message.id = id

\* C3 witness: a job that created a row has succeeded.
C3_Witness ==
    \E w \in Workers : Succeeded(w) /\ RowsInsertedBy(JobId(w)) # {}

\* C4: the step of _login_twitter that finds a saved session that
\* deserializes returns that session: the worker goes on to the fetch with
\* it, no login network call is made and redis is not written.
C4_CacheHit ==
    [][\A w \in Workers :
        (pc[w] = "login" /\ pc'[w] # "login"
            /\ twitter_session # NoBlob /\ pickle_loads(twitter_session).ok) =>
            /\ pc'[w] = "fetch"
            /\ session'[w] = pickle_loads(twitter_session).value
            /\ loginCalls'[w] = 0
            /\ sessionWrites'[w] = 0
            /\ twitter_session' = twitter_session]_vars

\* C4 witness: a worker is about to fetch with a session another job saved,
\* having made no login call and no write.
C4_Witness ==
    \E w \in Workers :
        /\ pc[w] = "fetch"
        /\ session[w] # NoSession /\ session[w] # JobId(w)
        /\ loginCalls[w] = 0 /\ sessionWrites[w] = 0

\* C5: a login response that redirects back to the login page ends the
\* authentication with an exception and without a write to redis; redis is
\* written at most once per job and only after both handshake calls, with
\* a login response that is a redirect elsewhere.
C5_NoWriteOnRejectedLogin ==
    \A w \in Workers :
        /\ (login_response[w].status_code = 302
                /\ StartsWith(login_response[w].Location, login_home_url)) =>
            /\ pc[w] = "except"
            /\ exc[w] # NoExc
            /\ sessionWrites[w] = 0
        /\ pc[w] = "login_save" =>
            /\ login_response[w].status_code = 302
            /\ ~StartsWith(login_response[w].Location, login_home_url)
            /\ sessionWrites[w] = 0
        /\ sessionWrites[w] <= 1
        /\ sessionWrites[w] = 1 => loginCalls[w] = 2

\* C5 witness: a login was answered by a redirect to the login page and
\* the job is in scrape_account's except clause, with no write made.
C5_Witness ==
    \E w \in Workers :
        /\ login_response[w].status_code = 302
        /\ StartsWith(login_response[w].Location, login_home_url)
        /\ pc[w] = "except"
        /\ sessionWrites[w] = 0

\* What the home page fetch of the job of worker w was answered.
HomeStatus(w) == response[w].status_code
HasIdentity(w) == Select(response[w].html, SelIdentity) # <<>>
\* The job of w ended by the exception the extraction of the secondary
\* fields raises on the page it fetched.
FailedInExtraction(w) ==
    /\ Ended(w)
    /\ HomeStatus(w) = 200
    /\ HasIdentity(w)
    /\ Extracted(response[w].html).exc # NoExc
    /\ exc[w] = Extracted(response[w].html).exc

\* C6: a job whose home-page fetch was answered 404 has published the
\* not-found failure (error_code 404, 'Profile not found.') and has
\* enqueued no job.
C6_NotFoundPublished ==
    \A w \in Workers :
        (Ended(w) /\ HomeStatus(w) = 404) =>
            /\ \A i \in MessagesOf(JobId(w)) : IsNotFoundMessage(profile_channel[i].message)
            /\ AvatarJobsOf(JobId(w)) = {}
            /\ IndexJobsOf(JobId(w)) = {}

\* C7: a job whose home-page fetch was answered by a status other than 200
\* and 404 has published the communication failure with that status as
\* error_code, and has returned rather than re-raised.
C7_TransientPublished ==
    \A w \in Workers :
        (Ended(w) /\ HomeStatus(w) \notin {0, 200, 404}) =>
            /\ \A i \in MessagesOf(JobId(w)) :
                IsCommunicationMessage(profile_channel[i].message, HomeStatus(w))
            /\ pc[w] = "returned"

\* C8: a job whose page (status 200) has no element for the identity
\* selector has published the not-found failure, not the unknown-error one.
C8_MissingIdentityIsNotFound ==
    \A w \in Workers :
        (Ended(w) /\ HomeStatus(w) = 200 /\ ~HasIdentity(w)) =>
            \A i \in MessagesOf(JobId(w)) : IsNotFoundMessage(profile_channel[i].message)

\* C9: a job whose page has the identity element but lacks one secondary
\* element, and that ended by the exception this raises, has published the
\* unknown-error failure and has returned: the exception is not re-raised.
C9_MissingSecondaryNotReraised ==
    \A w \in Workers :
        (FailedInExtraction(w) /\ \E s \in Secondary : Select(response[w].html, s) = <<>>) =>
            /\ \A i \in MessagesOf(JobId(w)) : IsUnknownMessage(profile_channel[i].message)
            /\ pc[w] = "returned"

\* C10: a job that failed in the extraction or assignment of the secondary
\* fields has left no row behind: no row of the table was inserted by it.
C10_NoRowLeftByFailedScrape ==
    \A w \in Workers : FailedInExtraction(w) => RowsInsertedBy(JobId(w)) = {}

FailedInLogin(w) == Ended(w) /\ HomeStatus(w) = 0

\* C12: a job that failed during authentication has published one failure
\* message and has returned: the failure does not reach the supervisor.
C12_AuthFailureNotPropagated ==
    \A w \in Workers :
        FailedInLogin(w) =>
            /\ Cardinality(MessagesOf(JobId(w))) = 1
            /\ pc[w] = "returned"

\* The login of the job of w was rejected (redirect back to the login
\* page); the login of the job of w was answered by a non-redirect status.
LoginRejected(w) == FailedInLogin(w) /\ exc[w].type = "NameError"
LoginNotRedirected(w) ==
    FailedInLogin(w) /\ exc[w].type = "ValueError" /\ loginCalls[w] = 2

\* C13: the message of a job whose login was rejected differs from the
\* message of a job, for the same account, whose login was answered by a
\* non-redirect status.
C13_RejectedLoginDistinct ==
    \A w, v \in Workers :
        (LoginRejected(w) /\ LoginNotRedirected(v) /\ args[w] = args[v]) =>
            \A i \in MessagesOf(JobId(w)), k \in MessagesOf(JobId(v)) :
                profile_channel[i].message # profile_channel[k].message

\* C14: a job called with a site other than 'twitter' has raised
\* ValueError and has made no login call, fetched no page, written neither
\* redis nor the Profile table, enqueued no job and published nothing.
C14_UnsupportedSiteNoEffect ==
    \A w \in Workers :
        (job[w] > 0 /\ args[w].site # "twitter") =>
            /\ pc[w] = "raised"
            /\ exc[w] = Exc("ValueError")
            /\ loginCalls[w] = 0
            /\ sessionWrites[w] = 0
            /\ response[w] = NoResponse
            /\ RowsInsertedBy(JobId(w)) = {}
            /\ AvatarJobsOf(JobId(w)) = {}
            /\ IndexJobsOf(JobId(w)) = {}
            /\ MessagesOf(JobId(w)) = {}

\* C14 witness: a job for 'facebook' has raised while the other worker is
\* in the middle of a twitter scrape.
C14_Witness ==
    \E w, v \in Workers :
        /\ job[w] > 0 /\ args[w].site = "facebook" /\ pc[w] = "raised"
        /\ pc[v] = "fields"

\* What avatar job j has stored and published.
FilesStoredBy(j) == {i \in 1..Len(files) : stored_by[i] = j}
AvatarLinksOf(j) == {i \in 1..Len(avatars) : avatars[i].file \in FilesStoredBy(j)}
AvatarEventsOf(j) == {i \in 1..Len(avatar_channel) : avatar_channel[i].job = j}

\* C15: an avatar job whose download was answered with a status other than
\* 200 has raised an error, has stored no File row, has added nothing to any
\* profile's avatars and has published nothing on 'avatar'.
C15_FailedDownloadStoresNothing ==
    \A a \in AvatarWorkers :
        aresp[a].status_code \notin {NoAvatarResponse.status_code, 200} =>
            /\ apc[a] = "raised"
            /\ aexc[a] = Exc("ValueError")
            /\ FilesStoredBy(AJobId(a)) = {}
            /\ AvatarLinksOf(AJobId(a)) = {}
            /\ AvatarEventsOf(AJobId(a)) = {}

\* C15 witness: a job for an existing profile has raised on a 404 answer
\* while that profile holds the avatar another job stored.
C15_Witness ==
    \E a \in AvatarWorkers :
        /\ apc[a] = "raised"
        /\ aresp[a].status_code = 404
        /\ aargs[a].id_ \in 1..Len(profiles)
        /\ \E i \in 1..Len(avatars) : avatars[i].profile = aargs[a].id_

\* The row with this id is in the table with its field values committed.
Committed(id) ==
    /\ id \in 1..Len(profiles)
    /\ profiles[id].description # NoneStr
    /\ profiles[id].post_count # NoneInt
    /\ profiles[id].friend_count # NoneInt
    /\ profiles[id].follower_count # NoneInt

\* C16: in one scrape the commit of the fields comes before the avatar
\* enqueue, that before the index enqueue, that before the success publish:
\* a worker about to enqueue the avatar job has its row committed and has
\* enqueued nothing, one about to enqueue the index job has enqueued only
\* the avatar job, one about to publish has enqueued both and published
\* nothing; and every queue entry and every success message carries the id
\* of a committed row.
C16_CommitThenEnqueuesThenPublish ==
    /\ \A w \in Workers :
        /\ pc[w] = "enqueue_avatar" =>
            /\ Committed(profile[w].id)
            /\ AvatarJobsOf(JobId(w)) = {} /\ IndexJobsOf(JobId(w)) = {}
            /\ MessagesOf(JobId(w)) = {}
        /\ pc[w] = "enqueue_index" =>
            /\ Cardinality(AvatarJobsOf(JobId(w))) = 1 /\ IndexJobsOf(JobId(w)) = {}
            /\ MessagesOf(JobId(w)) = {}
        /\ pc[w] = "publish" =>
            /\ Cardinality(AvatarJobsOf(JobId(w))) = 1
            /\ Cardinality(IndexJobsOf(JobId(w))) = 1
            /\ MessagesOf(JobId(w)) = {}
    /\ \A i \in 1..Len(scrape_queue) : Committed(scrape_queue[i].id)
    /\ \A i \in 1..Len(index_queue) :
        /\ Committed(index_queue[i].id)
        /\ \E k \in AvatarJobsOf(index_queue[i].job) : scrape_queue[k].id = index_queue[i].id
    /\ \A i \in 1..Len(profile_channel) :
        IsSuccessMessage(profile_channel[i].message) =>
            /\ Committed(profile_channel[i].message.id)
            /\ \E k \in IndexJobsOf(profile_channel[i].job) :
                index_queue[k].id = profile_channel[i].message.id

\* C16 witness: a scrape has returned after its success message, with its
\* avatar job and its index job in the queues, for a row another job
\* inserted.
C16_Witness ==
    \E w \in Workers :
        /\ Succeeded(w)
        /\ \E i \in MessagesOf(JobId(w)) :
            /\ IsSuccessMessage(profile_channel[i].message)
            /\ inserted_by[profile_channel[i].message.id] # JobId(w)
        /\ AvatarJobsOf(JobId(w)) # {}
        /\ IndexJobsOf(JobId(w)) # {}

\* The job of w was handed the saved session (no handshake was made) and
\* its fetch of the account's page with that session failed: the answer
\* was not 200, or was a page without the account's markup.
RejectedWithSavedSession(w) ==
    /\ args[w].site \in account_scrapers
    /\ loginCalls[w] = 0
    /\ HomeStatus(w) # NoResponse.status_code
    /\ HomeStatus(w) # 200 \/ ~HasIdentity(w)

\* C17: when a scrape that used the saved session ends in such a failure,
\* the 'twitter_session' entry no longer holds the session it used (the
\* entry was deleted, made unloadable or replaced), so that the next scrape
\* is not handed the same session.
C17_StaleSessionInvalidated ==
    [][\A w \in Workers :
        (pc[w] = "except" /\ pc'[w] \in Terminal /\ RejectedWithSavedSession(w)) =>
            pickle_loads(twitter_session') # [ok |-> TRUE, value |-> session[w]]]_vars

\* C18: the step of _login_twitter that finds no saved session, or one that
\* does not deserialize, goes on to the handshake with a new session and
\* leaves the entry alone; the step that ends a handshake that succeeded
\* (both calls made) writes the new session to 'twitter_session', this
\* being the job's one write, and returns the new session.
C18_FallbackToHandshake ==
    [][\A w \in Workers :
        /\ (pc[w] = "login" /\ pc'[w] # "login" /\ ~pickle_loads(twitter_session).ok) =>
            /\ pc'[w] = "login_page"
            /\ session'[w] = JobId(w)
            /\ sessionWrites'[w] = 0
            /\ twitter_session' = twitter_session
        /\ (pc[w] = "login_save" /\ pc'[w] # "login_save") =>
            /\ pc'[w] = "fetch"
            /\ loginCalls[w] = 2
            /\ session[w] = JobId(w)
            /\ session'[w] = JobId(w)
            /\ twitter_session' = pickle_dumps(JobId(w))
            /\ sessionWrites[w] = 0 /\ sessionWrites'[w] = 1]_vars

\* C18 witness: after a handshake that succeeded a worker is about to fetch
\* with the session of that handshake, which is the entry's value after the
\* job's one write.
C18_Witness ==
    \E w \in Workers :
        /\ pc[w] = "fetch"
        /\ loginCalls[w] = 2
        /\ session[w] = JobId(w)
        /\ sessionWrites[w] = 1
        /\ twitter_session = pickle_dumps(JobId(w))

\* C19: an avatar job for an id that has no Profile row comes to the check
\* for the profile only with a downloaded response (status 200), raises
\* ValueError there, stores no File and publishes nothing; and every message
\* on 'avatar' names a profile that exists and the File which that job
\* stored and appended to that profile's avatars.
C19_MissingProfileCheckedAfterDownload ==
    /\ \A a \in AvatarWorkers :
        /\ apc[a] = "lookup" => aresp[a].status_code = 200
        /\ (ajob[a] > 0 /\ aargs[a].id_ \notin 1..Len(profiles)) =>
            /\ apc[a] \in {"download", "lookup", "raised"}
            /\ apc[a] = "raised" =>
                /\ aexc[a] = Exc("ValueError")
                /\ aresp[a] # NoAvatarResponse
            /\ FilesStoredBy(AJobId(a)) = {}
            /\ AvatarLinksOf(AJobId(a)) = {}
            /\ AvatarEventsOf(AJobId(a)) = {}
    /\ \A i \in 1..Len(avatar_channel) :
        LET m == avatar_channel[i].message
            f == m.url[2]
        IN  /\ m.id \in 1..Len(profiles)
            /\ f \in FilesStoredBy(avatar_channel[i].job)
            /\ \E k \in 1..Len(avatars) : avatars[k] = [profile |-> m.id, file |-> f]

\* C19 witness: a job for an id without a row has raised after a download
\* answered 200, while another job's avatar event is on the channel.
C19_Witness ==
    \E a \in AvatarWorkers :
        /\ apc[a] = "raised"
        /\ aargs[a].id_ \notin 1..Len(profiles)
        /\ aresp[a].status_code = 200
        /\ avatar_channel # <<>>

\* C20: a scrape that is over has enqueued both its avatar job and its
\* index job or neither, and one that has published a failure message has
\* enqueued neither.
C20_BothOrNeitherEnqueued ==
    \A w \in Workers :
        Ended(w) =>
            /\ AvatarJobsOf(JobId(w)) = {} <=> IndexJobsOf(JobId(w)) = {}
            /\ (\E i \in MessagesOf(JobId(w)) : ~IsSuccessMessage(profile_channel[i].message)) =>
                /\ AvatarJobsOf(JobId(w)) = {}
                /\ IndexJobsOf(JobId(w)) = {}

====
